---- MODULE Spec2Model ----
(***************************************************************************)
(* Schedule propagation and dependency validation of the planner backend.  *)
(*                                                                         *)
(*   - ScheduleService and propagate_delay_through_graph                   *)
(*     (schedule_service_refined.py, embedded in src/README.md)            *)
(*   - detect_cycle (dependency_validator.py, embedded in                  *)
(*     src/unnamed/part_000)                                               *)
(*   - UC-010 Add Task Dependency (src/README.md)                          *)
(*                                                                         *)
(* Dates are whole days (integers); a timedelta is a number of days.       *)
(* An Optional value is a sequence of length 0 (None) or 1 (the value).    *)
(***************************************************************************)
EXTENDS Integers, Sequences, FiniteSets, TLC

VARIABLES
    tasks,        \* task repository: task id -> Task
    deps,         \* dependency records: task id -> list of depends_on ids
    pc,           \* position of propagate_delay_through_graph: "idle" | "loop"
    root,         \* Optional id of the root task of the run in progress
    delay_delta,  \* Optional delay computed at line 3017 for the run
    queue,        \* BFS queue of the run
    visited,      \* BFS visited set of the run
    updatedIds,   \* ids returned as updated by propagate_delay_to_dependents in the run
    log,          \* roots of the completed runs, in order
    tasks0,       \* the repository as it was initially
    pre,          \* the repository as it was when the latest run started
    dcCall,       \* latest detect_cycle call: Optional [task_id, depends_on_id, result]
    addResult,    \* outcome of the latest Add Task Dependency: "none" | "stored" | "CycleDetected"
    run,          \* step-wise calls of propagate_delay_through_graph: caller -> call frame
    history,      \* schedule_history_repository: list of ScheduleHistory entries
    delayCall,    \* latest detect_delay call: Optional [task, result]
    user_responsible,  \* task id -> Optional user who claimed the task
    unblocked,    \* dependents unblocked by the latest handle_task_completed
    bus,          \* EventBus: _handlers, the handlers that raise, the latest emit
    gantt,        \* timeline component: its tasks and the latest calculateTaskRows result
    maxCall,      \* latest calculate_max_delay_from_parents call: Optional [parent_tasks, result]
    dfs           \* step-wise call of detect_cycle: its stack, visited set and result

vars == <<tasks, deps, pc, root, delay_delta, queue, visited, updatedIds,
          log, tasks0, pre, dcCall, addResult, run, history, delayCall,
          user_responsible, unblocked, bus, gantt, maxCall, dfs>>

\* Variables of the step-wise propagation, the ledger, the delay detection
\* and the task lifecycle, which the other operations leave alone.
stepVars == <<run, history, delayCall, user_responsible, unblocked, bus,
              gantt, maxCall, dfs>>

----------------------------------------------------------------------------
(* Bounds of the model *)

\* Largest delay (in days) of a completed root task.
MaxDelay == 4

\* Number of propagate_delay_through_graph calls in one behaviour.
MaxRuns == 2

\* Largest number of dependency records in an arbitrary edge map.
MaxEdges == 3

----------------------------------------------------------------------------
(* Values *)

Tasks == {"A", "B", "C", "D"}

None == <<>>
Some(v) == <<v>>
Val(o) == o[1]

\* TaskStatus enum
TaskStatus == {"todo", "blocked", "doing", "done", "cancelled"}

Range(s) == {s[i] : i \in 1..Len(s)}

\* Every ordering of the finite set S as a list without repetition.
RECURSIVE Orderings(_)
Orderings(S) ==
    IF S = {} THEN {<<>>}
    ELSE UNION {{<<x>> \o s : s \in Orderings(S \ {x})} : x \in S}

Task(st, es, ee, as, ae) ==
    [status |-> st,
     expected_start_date |-> es, expected_end_date |-> ee,
     actual_start_date |-> as, actual_end_date |-> ae,
     was_shifted |-> FALSE]

\* Callers that may run propagate_delay_through_graph at the same time.
Procs == {"p1", "p2"}

\* A call frame of propagate_delay_through_graph before the call.
IdleRun ==
    [pc |-> "idle", root |-> None, queue |-> <<>>, visited |-> {},
     current |-> None, dependents |-> <<>>, passed |-> <<>>, objs |-> <<>>,
     toSave |-> <<>>, saved |-> {}, outcome |-> "none", pre |-> <<>>]

\* The event types of the bus (DomainEvent subclasses).
EventTypes == {"TaskCompleted", "TaskAssigned"}

\* An EventBus after __init__, with no emit made.
IdleBus ==
    [handlers |-> [e \in EventTypes |-> <<>>], raising |-> {}, emitted |-> None]

\* No call of detect_cycle in progress.
IdleDfs ==
    [pc |-> "idle", task_id |-> None, stack |-> <<>>, visited |-> {},
     expanded |-> <<>>, result |-> None]

\* The timeline component before it is mounted: no task, no row computed.
IdleGantt ==
    [tasks |-> <<>>, pc |-> "unmounted", sortedTasks |-> <<>>, index |-> 0,
     assignedRow |-> 0, rowMap |-> [id \in {} |-> 0]]

\* No step-wise call, empty ledger, no delay detection, no task claimed,
\* nothing unblocked, no event emitted, no row or latest finish computed.
StepVarsIdle ==
    /\ run = [p \in Procs |-> IdleRun]
    /\ history = <<>>
    /\ delayCall = None
    /\ user_responsible = [t \in Tasks |-> None]
    /\ unblocked = {}
    /\ bus = IdleBus
    /\ gantt = IdleGantt
    /\ maxCall = None
    /\ dfs = IdleDfs

----------------------------------------------------------------------------
(* ScheduleService: pure schedule calculations *)

\* detect_delay: actual_end_date > expected_end_date, False when either is missing
\* A detection that also reports a task finished exactly on its expected end.
detect_delay_GreaterEq(task) ==
    IF task.actual_end_date = None \/ task.expected_end_date = None
    THEN FALSE
    ELSE Val(task.actual_end_date) >= Val(task.expected_end_date)

detect_delay(task) ==
    IF task.actual_end_date = None \/ task.expected_end_date = None
    THEN FALSE
    ELSE Val(task.actual_end_date) > Val(task.expected_end_date)

\* Faulty variant: the operands of the subtraction are swapped.
calculate_delay_delta_Swapped(task) ==
    IF ~detect_delay(task)
    THEN None
    ELSE Some(Val(task.expected_end_date) - Val(task.actual_end_date))

\* calculate_delay_delta: Optional timedelta, None when the task is not delayed
calculate_delay_delta(task) ==
    IF ~detect_delay(task)
    THEN None
    ELSE Some(Val(task.actual_end_date) - Val(task.expected_end_date))

\* Body of the for loop of propagate_delay_to_dependents for one dependent
\* that is not DONE: the dependent object after the in-place assignments.
\* A started-task shift that also moves the recorded actual start.
ShiftEndOnly_MovesActualStart(dependent, delta) ==
    IF dependent.expected_end_date # None
    THEN [dependent EXCEPT
            !.expected_end_date = Some(Val(dependent.expected_end_date) + delta),
            !.actual_start_date = Some(Val(dependent.actual_start_date) + delta),
            !.was_shifted = TRUE]
    ELSE dependent

ShiftEndOnly(dependent, delta) ==
    IF dependent.expected_end_date # None
    THEN [dependent EXCEPT
            !.expected_end_date = Some(Val(dependent.expected_end_date) + delta),
            !.was_shifted = TRUE]
    ELSE dependent

\* Faulty variant: only expected_start_date is shifted.
ShiftBoth_StartOnly(dependent, delta) ==
    [dependent EXCEPT
        !.expected_start_date =
            IF dependent.expected_start_date # None
            THEN Some(Val(dependent.expected_start_date) + delta)
            ELSE None,
        !.was_shifted = TRUE]

\* A not-started shift that moves the end and forgets the start.
ShiftBoth_EndOnly(dependent, delta) ==
    [dependent EXCEPT
        !.expected_end_date =
            IF dependent.expected_end_date # None
            THEN Some(Val(dependent.expected_end_date) + delta)
            ELSE None,
        !.was_shifted = TRUE]

ShiftBoth(dependent, delta) ==
    [dependent EXCEPT
        !.expected_start_date =
            IF dependent.expected_start_date # None
            THEN Some(Val(dependent.expected_start_date) + delta)
            ELSE None,
        !.expected_end_date =
            IF dependent.expected_end_date # None
            THEN Some(Val(dependent.expected_end_date) + delta)
            ELSE None,
        !.was_shifted = TRUE]

\* BR-025 guard of the loop: DONE dependents are skipped (continue).
SkipsDependent(dependent) == dependent.status = "done"

\* Faulty variant: the lifecycle test of BR-026 is lost and a started task is
\* shifted like one that has not started.
ShiftDependent_IgnoresStart(dependent, delta) ==
    IF SkipsDependent(dependent) THEN dependent
    ELSE ShiftBoth(dependent, delta)

ShiftDependent(dependent, delta) ==
    IF SkipsDependent(dependent) THEN dependent
    ELSE IF dependent.actual_start_date # None
         THEN ShiftEndOnly(dependent, delta)
         ELSE ShiftBoth(dependent, delta)

\* propagate_delay_to_dependents(task, dependents): dependents is a list of
\* ids into the object store objs.  Returns the object store after the
\* in-place assignments and the list of updated ids.
RECURSIVE PropagateLoop(_, _, _, _)
PropagateLoop(objs, dependents, delta, updated) ==
    IF dependents = <<>> THEN [objs |-> objs, updated |-> updated]
    ELSE LET d == Head(dependents) IN
         IF SkipsDependent(objs[d])
         THEN PropagateLoop(objs, Tail(dependents), delta, updated)
         ELSE PropagateLoop([objs EXCEPT ![d] = ShiftDependent(objs[d], delta)],
                            Tail(dependents), delta, Append(updated, d))

\* Faulty variant: the dependents are shifted by whatever difference the two
\* end dates of the task have, late or not.
propagate_delay_to_dependents_Unguarded(objs, task, dependents) ==
    IF task.actual_end_date = None \/ task.expected_end_date = None
    THEN [objs |-> objs, updated |-> <<>>]
    ELSE PropagateLoop(objs, dependents,
                       Val(task.actual_end_date) - Val(task.expected_end_date),
                       <<>>)

propagate_delay_to_dependents(objs, task, dependents) ==
    LET dd == calculate_delay_delta(task) IN
    IF dd = None \/ Val(dd) <= 0
    THEN [objs |-> objs, updated |-> <<>>]
    ELSE PropagateLoop(objs, dependents, Val(dd), <<>>)

\* calculate_max_delay_from_paths: delays_per_path is a function source -> days
calculate_max_delay_from_paths(delays_per_path) ==
    IF DOMAIN delays_per_path = {} THEN 0
    ELSE CHOOSE m \in {delays_per_path[k] : k \in DOMAIN delays_per_path} :
            \A k \in DOMAIN delays_per_path : delays_per_path[k] <= m

\* Faulty variant of the loop: the date of the last parent that has one is
\* kept, whether or not it is later than the running maximum.
RECURSIVE MaxDateLoop_KeepsLast(_, _)
MaxDateLoop_KeepsLast(parent_tasks, max_date) ==
    IF parent_tasks = <<>> THEN max_date
    ELSE LET parent == Head(parent_tasks)
             parent_end ==
                 IF parent.status = "done" /\ parent.actual_end_date # None
                 THEN parent.actual_end_date
                 ELSE parent.expected_end_date
         IN IF parent_end = None
            THEN MaxDateLoop_KeepsLast(Tail(parent_tasks), max_date)
            ELSE MaxDateLoop_KeepsLast(Tail(parent_tasks), parent_end)

\* calculate_max_delay_from_parents (schedule_calculator.py): the for loop
\* over parent_tasks, max_date being the running maximum.
RECURSIVE MaxDateLoop(_, _)
MaxDateLoop(parent_tasks, max_date) ==
    IF parent_tasks = <<>> THEN max_date
    ELSE LET parent == Head(parent_tasks)
             parent_end ==
                 IF parent.status = "done" /\ parent.actual_end_date # None
                 THEN parent.actual_end_date
                 ELSE IF parent.expected_end_date # None
                      THEN parent.expected_end_date
                      ELSE None
         IN IF parent_end = None
            THEN MaxDateLoop(Tail(parent_tasks), max_date)
            ELSE IF max_date = None \/ Val(parent_end) > Val(max_date)
                 THEN MaxDateLoop(Tail(parent_tasks), parent_end)
                 ELSE MaxDateLoop(Tail(parent_tasks), max_date)

calculate_max_delay_from_parents(parent_tasks) ==
    IF parent_tasks = <<>> THEN None
    ELSE MaxDateLoop(parent_tasks, None)

----------------------------------------------------------------------------
(* Dependency validation *)

\* existing_dependencies.get(current, [])
DepsOf(existing_dependencies, current) ==
    IF current \in DOMAIN existing_dependencies
    THEN existing_dependencies[current]
    ELSE <<>>

\* Faulty variant: only the first dependency of current is pushed.
PushDeps_FirstOnly(stack, existing_dependencies, current) ==
    IF DepsOf(existing_dependencies, current) = <<>> THEN stack
    ELSE Append(stack, Head(DepsOf(existing_dependencies, current)))

\* stack after "for dep_id in ...: stack.append(dep_id)"
PushDeps(stack, existing_dependencies, current) ==
    stack \o DepsOf(existing_dependencies, current)

\* Faulty variant of the loop: meeting a task already visited is reported as
\* a cycle instead of being skipped.
RECURSIVE DetectCycleLoop_RevisitIsCycle(_, _, _, _)
DetectCycleLoop_RevisitIsCycle(task_id, existing_dependencies, stack, seen) ==
    IF stack = <<>> THEN FALSE
    ELSE LET current == stack[Len(stack)]
             rest == SubSeq(stack, 1, Len(stack) - 1)
         IN IF current = task_id \/ current \in seen THEN TRUE
            ELSE DetectCycleLoop_RevisitIsCycle(
                     task_id, existing_dependencies,
                     PushDeps(rest, existing_dependencies, current),
                     seen \cup {current})

\* The while loop of detect_cycle: stack.pop() takes the last element.
RECURSIVE DetectCycleLoop(_, _, _, _)
DetectCycleLoop(task_id, existing_dependencies, stack, seen) ==
    IF stack = <<>> THEN FALSE
    ELSE LET current == stack[Len(stack)]
             rest == SubSeq(stack, 1, Len(stack) - 1)
         IN IF current = task_id THEN TRUE
            ELSE IF current \in seen
                 THEN DetectCycleLoop(task_id, existing_dependencies, rest, seen)
                 ELSE DetectCycleLoop(task_id, existing_dependencies,
                                      PushDeps(rest, existing_dependencies, current),
                                      seen \cup {current})

\* Faulty variant: the search runs from task_id towards depends_on_id, the
\* wrong direction of the dependency lists.
detect_cycle_WrongDirection(task_id, depends_on_id, existing_dependencies) ==
    IF task_id = depends_on_id THEN TRUE
    ELSE DetectCycleLoop(depends_on_id, existing_dependencies, <<task_id>>, {})

detect_cycle(task_id, depends_on_id, existing_dependencies) ==
    IF task_id = depends_on_id THEN TRUE
    ELSE DetectCycleLoop(task_id, existing_dependencies, <<depends_on_id>>, {})

----------------------------------------------------------------------------
(* Task repository *)

\* task_repository.find_dependent_tasks(task_id): the tasks that depend on
\* task_id, as a list; the repository fixes no order, so every order is allowed.
find_dependent_tasks(task_id) ==
    Orderings({t \in Tasks : task_id \in Range(deps[t])})

----------------------------------------------------------------------------
(* propagate_delay_through_graph, one action per step of the use case *)

\* Entry: lines 3017-3023.  The use case is triggered for a task whose status
\* changed to DONE (BR-027).
StartPropagation(r) ==
    /\ pc = "idle"
    /\ Len(log) < MaxRuns
    /\ tasks[r].status = "done"
    /\ pre' = tasks
    /\ updatedIds' = {}
    /\ LET dd == calculate_delay_delta(tasks[r]) IN
       IF dd = None
       THEN /\ log' = Append(log, r)
            /\ UNCHANGED <<pc, root, delay_delta, queue, visited>>
       ELSE /\ pc' = "loop"
            /\ root' = Some(r)
            /\ delay_delta' = dd
            /\ queue' = <<r>>
            /\ visited' = {}
            /\ UNCHANGED log
    /\ UNCHANGED <<tasks, deps, tasks0, dcCall, addResult>>
    /\ UNCHANGED stepVars

\* Faulty variant of the loop iteration: the dequeued task is processed
\* whether or not it is in the visited set.
LoopStep_NoVisitedCheck ==
    /\ pc = "loop"
    /\ queue # <<>>
    /\ LET current_id == Head(queue) IN
       /\ visited' = visited \cup {current_id}
       /\ \E dependents \in find_dependent_tasks(current_id) :
            LET res == propagate_delay_to_dependents(
                           tasks, tasks[current_id], dependents)
            IN /\ tasks' = res.objs
               /\ queue' = Tail(queue) \o res.updated
               /\ updatedIds' = updatedIds \cup Range(res.updated)
    /\ UNCHANGED <<deps, pc, root, delay_delta, log, tasks0, pre, dcCall, addResult>>
    /\ UNCHANGED stepVars

\* One iteration of the while loop: lines 3025-3056.  Every task id in the
\* queue is in the repository, so find_by_id never returns None.
LoopStep ==
    /\ pc = "loop"
    /\ queue # <<>>
    /\ LET current_id == Head(queue) IN
       IF current_id \in visited
       THEN /\ queue' = Tail(queue)
            /\ UNCHANGED <<tasks, visited, updatedIds>>
       ELSE /\ visited' = visited \cup {current_id}
            /\ \E dependents \in find_dependent_tasks(current_id) :
                 LET res == propagate_delay_to_dependents(
                                tasks, tasks[current_id], dependents)
                 IN /\ tasks' = res.objs
                    /\ queue' = Tail(queue) \o res.updated
                    /\ updatedIds' = updatedIds \cup Range(res.updated)
    /\ UNCHANGED <<deps, pc, root, delay_delta, log, tasks0, pre, dcCall, addResult>>
    /\ UNCHANGED stepVars

\* The while loop ends on an empty queue and the use case returns.
Return ==
    /\ pc = "loop"
    /\ queue = <<>>
    /\ pc' = "idle"
    /\ log' = Append(log, Val(root))
    /\ root' = None
    /\ delay_delta' = None
    /\ UNCHANGED <<tasks, deps, queue, visited, updatedIds, tasks0, pre, dcCall,
                   addResult>>
    /\ UNCHANGED stepVars

----------------------------------------------------------------------------
(* Initial repositories of the propagation specification *)

\* A completed task whose expected end was Day 0 and actual end Day n
\* (the root_task of the unit tests, lines 3148-3157).
DoneRoot(n) == Task("done", None, Some(0), None, Some(n))

\* dependent of test_propagate_shifts_not_started_tasks (lines 3159-3169)
TodoTask == Task("todo", Some(1), Some(3), None, None)

\* a task in progress: started on Day 1, expected to end on Day 5
DoingTask == Task("doing", Some(1), Some(5), Some(1), None)

\* dependent of test_skip_completed_tasks (lines 3230-3241)
DoneTask == Task("done", Some(0), Some(3), Some(0), Some(3))

CancelledTask == Task("cancelled", Some(1), Some(3), None, None)

\* a task created without planning dates (both are Optional)
UndatedTask == Task("blocked", None, None, None, None)

DependentProfiles == {TodoTask, DoingTask, DoneTask, CancelledTask, UndatedTask}

RootProfiles == {DoneRoot(n) : n \in (-1)..MaxDelay}

NoDeps == [t \in Tasks |-> <<>>]

\* A -> B -> C -> D: B depends on A, C on B, D on C
Chain == [NoDeps EXCEPT !["B"] = <<"A">>, !["C"] = <<"B">>, !["D"] = <<"C">>]

\* D depends on both A and B; C depends on D
FanIn == [NoDeps EXCEPT !["D"] = <<"A", "B">>, !["C"] = <<"D">>]

\* A -> B -> D and A -> C -> D
Diamond == [NoDeps EXCEPT !["B"] = <<"A">>, !["C"] = <<"A">>, !["D"] = <<"B", "C">>]

Shapes == {Chain, FanIn, Diamond}

Init ==
    /\ deps \in Shapes
    /\ tasks \in [Tasks -> RootProfiles \cup DependentProfiles]
    /\ tasks["A"] \in RootProfiles
    /\ tasks["C"] \in DependentProfiles
    /\ tasks["D"] \in DependentProfiles
    /\ tasks0 = tasks
    /\ pre = tasks
    /\ pc = "idle"
    /\ root = None
    /\ delay_delta = None
    /\ queue = <<>>
    /\ visited = {}
    /\ updatedIds = {}
    /\ log = <<>>
    /\ dcCall = None
    /\ addResult = "none"
    /\ StepVarsIdle

Next ==
    \/ \E r \in Tasks : StartPropagation(r)
    \/ LoopStep
    \/ Return

Spec == Init /\ [][Next]_vars

----------------------------------------------------------------------------
(* Vocabulary of the properties *)

NotStarted(task) ==
    /\ task.actual_start_date = None
    /\ task.status \in {"todo", "blocked"}

HasBothDates(task) ==
    /\ task.expected_start_date # None
    /\ task.expected_end_date # None

\* Date o moved by n days from date o0 (a missing date stays missing).
MovedBy(o0, o, n) == IF o0 = None THEN o = None ELSE o = Some(Val(o0) + n)

\* Both expected dates of now are those of before moved by n days.
ShiftedBy(before, now, n) ==
    /\ MovedBy(before.expected_start_date, now.expected_start_date, n)
    /\ MovedBy(before.expected_end_date, now.expected_end_date, n)

SameExpectedDates(before, now) ==
    /\ now.expected_start_date = before.expected_start_date
    /\ now.expected_end_date = before.expected_end_date

\* The first run has returned and its root was r.
FirstRunDone(r) == pc = "idle" /\ log = <<r>>

----------------------------------------------------------------------------
(* Properties of propagation, checked under Spec *)

\* C1 (as claimed): after propagate_delay_through_graph has run for root A,
\* completed N days late, on the chain A -> B -> C -> D of not-started tasks,
\* each of B, C and D has its expected dates shifted by N days.
C1_TransitivePropagation ==
    ( /\ FirstRunDone("A")
      /\ deps = Chain
      /\ detect_delay(tasks0["A"])
      /\ \A t \in {"B", "C", "D"} : NotStarted(tasks0[t]) )
    => \A t \in {"B", "C", "D"} :
          ShiftedBy(tasks0[t], tasks[t], Val(calculate_delay_delta(tasks0["A"])))

\* C2 (as claimed): D depends on A and B, A finished 2 days late and B 4 days
\* late; once both delays have been propagated, in either order, D's expected
\* dates are shifted by 4 days in total.
C2_MaxOfPaths ==
    ( /\ pc = "idle"
      /\ log \in {<<"A", "B">>, <<"B", "A">>}
      /\ deps = FanIn
      /\ calculate_delay_delta(tasks0["A"]) = Some(2)
      /\ calculate_delay_delta(tasks0["B"]) = Some(4)
      /\ NotStarted(tasks0["D"])
      /\ HasBothDates(tasks0["D"]) )
    => ShiftedBy(tasks0["D"], tasks["D"], 4)

\* C3 (as claimed): a second run for the same delayed root, against the
\* repository the first run produced, changes no task's expected dates
\* (stated for repositories without cancelled tasks, which C6 is about).
C3_Idempotence ==
    ( /\ pc = "idle"
      /\ Len(log) = 2
      /\ log[1] = log[2]
      /\ detect_delay(tasks0[log[1]])
      /\ \A t \in Tasks : tasks0[t].status # "cancelled" )
    => \A t \in Tasks : SameExpectedDates(pre[t], tasks[t])

\* C6 (as claimed): a task whose status is done or cancelled keeps both
\* expected dates through every propagation and is never reported as updated.
C6_Immutability ==
    \A t \in Tasks :
        tasks[t].status \in {"done", "cancelled"}
        => /\ SameExpectedDates(tasks0[t], tasks[t])
           /\ t \notin updatedIds

\* C7: a task with actual_start_date set keeps its expected_start_date
\* through every propagation.
C7_LifecycleFreeze ==
    \A t \in Tasks :
        tasks[t].actual_start_date # None
        => tasks[t].expected_start_date = tasks0[t].expected_start_date

\* C7 witness: a started task was updated by a propagation and its expected
\* end moved.
C7_Witness ==
    \E t \in Tasks :
        /\ tasks[t].actual_start_date # None
        /\ t \in updatedIds
        /\ tasks[t].expected_end_date # tasks0[t].expected_end_date

\* C8: for a task that has not started and has both expected dates,
\* expected_end_date - expected_start_date is the same after every propagation.
C8_DurationPreserved ==
    \A t \in Tasks :
        (tasks0[t].actual_start_date = None /\ HasBothDates(tasks0[t]))
        => /\ HasBothDates(tasks[t])
           /\ Val(tasks[t].expected_end_date) - Val(tasks[t].expected_start_date)
              = Val(tasks0[t].expected_end_date) - Val(tasks0[t].expected_start_date)

\* C8 witness: a not-started task with both dates was shifted.
C8_Witness ==
    \E t \in Tasks :
        /\ tasks0[t].actual_start_date = None
        /\ HasBothDates(tasks0[t])
        /\ t \in updatedIds
        /\ tasks[t].expected_start_date # tasks0[t].expected_start_date

\* Scenario 1: A expected to end on Day 0 and completed on Day 3; B depends on
\* A, is not started, expected start Day 1 and expected end Day 3.
Scenario1 ==
    /\ tasks0["A"] = DoneRoot(3)
    /\ tasks0["B"] = TodoTask
    /\ "A" \in Range(deps["B"])

\* C9: in Scenario 1, the propagation from A leaves B with expected start
\* Day 4 and expected end Day 6.
C9_Scenario1 ==
    (FirstRunDone("A") /\ Scenario1)
    => /\ tasks["B"].expected_start_date = Some(4)
       /\ tasks["B"].expected_end_date = Some(6)

\* C9 witness: the propagation of Scenario 1 has run and B was updated.
C9_Witness ==
    /\ FirstRunDone("A")
    /\ Scenario1
    /\ "B" \in updatedIds
    /\ tasks["B"].expected_start_date = Some(4)

\* Scenario 2: C depends on B and is doing, started on Day 1 with expected end
\* Day 5; B depends on A, which completed 3 days late.
Scenario2 ==
    /\ deps = Chain
    /\ tasks0["A"] = DoneRoot(3)
    /\ tasks0["B"] = TodoTask
    /\ tasks0["C"] = DoingTask

\* C10 (as claimed): in Scenario 2, once the propagation from A has shifted B
\* by 3 days, C's expected start is still Day 1 and its expected end is Day 8.
C10_Scenario2 ==
    ( /\ FirstRunDone("A")
      /\ Scenario2
      /\ ShiftedBy(tasks0["B"], tasks["B"], 3) )
    => /\ tasks["C"].expected_start_date = Some(1)
       /\ tasks["C"].expected_end_date = Some(8)

----------------------------------------------------------------------------
(* detect_cycle on arbitrary dependency maps *)

TodoRepository == [t \in Tasks |-> TodoTask]

\* The dependency maps over the tasks of S holding exactly the records E
\* (pairs <<task, depends_on>>), each list in any order.
RECURSIVE MapsOver(_, _)
MapsOver(E, S) ==
    IF S = {} THEN {<<>>}
    ELSE LET t == CHOOSE x \in S : TRUE IN
         {(t :> l) @@ m : l \in Orderings({d \in Tasks : <<t, d>> \in E}),
                          m \in MapsOver(E, S \ {t})}

InitCycle ==
    /\ \E E \in SUBSET (Tasks \X Tasks) :
          /\ Cardinality(E) <= MaxEdges
          /\ deps \in MapsOver(E, Tasks)
    /\ tasks = TodoRepository
    /\ tasks0 = tasks
    /\ pre = tasks
    /\ pc = "idle"
    /\ root = None
    /\ delay_delta = None
    /\ queue = <<>>
    /\ visited = {}
    /\ updatedIds = {}
    /\ log = <<>>
    /\ dcCall = None
    /\ addResult = "none"
    /\ StepVarsIdle

\* A call detect_cycle(task_id, depends_on_id, existing_dependencies) on the
\* current dependency map; the call and its result are recorded.
DetectCycleCall(task_id, depends_on_id) ==
    /\ dcCall' = Some([task_id |-> task_id, depends_on_id |-> depends_on_id,
                       result |-> detect_cycle(task_id, depends_on_id, deps)])
    /\ UNCHANGED <<tasks, deps, pc, root, delay_delta, queue, visited,
                   updatedIds, log, tasks0, pre, addResult>>
    /\ UNCHANGED stepVars

NextCycle == \E t \in Tasks, d \in Tasks : DetectCycleCall(t, d)

SpecCycle == InitCycle /\ [][NextCycle]_vars

----------------------------------------------------------------------------
(* Adding and removing dependencies *)

\* Bound: dependency records stored at any one time.
MaxRecords == 3

RECURSIVE SumLen(_, _)
SumLen(m, S) ==
    IF S = {} THEN 0
    ELSE LET t == CHOOSE x \in S : TRUE IN Len(m[t]) + SumLen(m, S \ {t})

TotalRecords == SumLen(deps, Tasks)

\* UC-010 Add Task Dependency: task_id depends on depends_on_id.
\*   2. the dependency is validated (BR-008) and rejected when detect_cycle
\*      is True; 3. the TaskDependency record is created; 4. when the blocker
\*      is not done the dependent becomes blocked.
AddDependency(task_id, depends_on_id) ==
    /\ IF detect_cycle(task_id, depends_on_id, deps)
       THEN /\ addResult' = "CycleDetected"
            /\ UNCHANGED <<deps, tasks>>
       ELSE /\ TotalRecords < MaxRecords
            /\ addResult' = "stored"
            /\ deps' = [deps EXCEPT ![task_id] = Append(@, depends_on_id)]
            /\ tasks' = IF tasks[depends_on_id].status # "done"
                        THEN [tasks EXCEPT ![task_id].status = "blocked"]
                        ELSE tasks
    /\ UNCHANGED <<pc, root, delay_delta, queue, visited, updatedIds, log,
                   tasks0, pre, dcCall>>
    /\ UNCHANGED stepVars

\* Removal of the i-th dependency record of task_id.
RemoveDependency(task_id, i) ==
    /\ i \in 1..Len(deps[task_id])
    /\ deps' = [deps EXCEPT ![task_id] =
                    SubSeq(@, 1, i - 1) \o SubSeq(@, i + 1, Len(@))]
    /\ UNCHANGED <<tasks, pc, root, delay_delta, queue, visited, updatedIds,
                   log, tasks0, pre, dcCall, addResult>>
    /\ UNCHANGED stepVars

\* A repository of tasks to relate: A, B and D to do, C completed.
DepsRepository == [TodoRepository EXCEPT !["C"] = DoneTask]

InitDeps ==
    /\ deps = NoDeps
    /\ tasks = DepsRepository
    /\ tasks0 = tasks
    /\ pre = tasks
    /\ pc = "idle"
    /\ root = None
    /\ delay_delta = None
    /\ queue = <<>>
    /\ visited = {}
    /\ updatedIds = {}
    /\ log = <<>>
    /\ dcCall = None
    /\ addResult = "none"
    /\ StepVarsIdle

NextDeps ==
    \/ \E t \in Tasks, d \in Tasks : AddDependency(t, d)
    \/ \E t \in Tasks, i \in 1..MaxRecords : RemoveDependency(t, i)

SpecDeps == InitDeps /\ [][NextDeps]_vars

----------------------------------------------------------------------------
(* Properties of dependency validation *)

\* One step along the dependency lists of m from the tasks of S.
StepFrom(m, S) == UNION {Range(DepsOf(m, s)) : s \in S}

\* Tasks reachable from the tasks of S in zero or more steps.
RECURSIVE ReachClosure(_, _)
ReachClosure(m, S) ==
    LET N == S \cup StepFrom(m, S) IN
    IF N = S THEN S ELSE ReachClosure(m, N)

\* to is reachable from from by following the dependency lists of m
\* (zero or more steps).
Reachable(m, from, to) == to \in ReachClosure(m, {from})

\* m has a self-edge or a directed cycle.
HasCycle(m) ==
    \E t \in DOMAIN m : t \in ReachClosure(m, StepFrom(m, {t}))

\* C4: detect_cycle returns True whenever task_id = depends_on_id or task_id
\* is reachable from depends_on_id along the existing dependency lists,
\* whatever the dependency map.
C4_CycleRejection ==
    dcCall # None =>
        LET c == Val(dcCall) IN
        (c.task_id = c.depends_on_id \/ Reachable(deps, c.depends_on_id, c.task_id))
        => c.result = TRUE

\* C4 witness: a call whose task_id is reachable from depends_on_id only
\* through an intermediate task returned True.
C4_Witness ==
    /\ dcCall # None
    /\ Val(dcCall).task_id # Val(dcCall).depends_on_id
    /\ Val(dcCall).task_id \notin Range(deps[Val(dcCall).depends_on_id])
    /\ Reachable(deps, Val(dcCall).depends_on_id, Val(dcCall).task_id)
    /\ Val(dcCall).result = TRUE

\* C5: starting from no dependencies, after any sequence of add-dependency
\* and remove-dependency operations the stored dependencies have no self-edge
\* and no directed cycle.
C5_DagInvariant == ~HasCycle(deps)

\* C5 witness: with a chain of three dependencies stored, the add-dependency
\* that would close the cycle was rejected.
C5_Witness ==
    /\ addResult = "CycleDetected"
    /\ TotalRecords = 3
    /\ \E t \in Tasks : ReachClosure(deps, {t}) = Tasks

----------------------------------------------------------------------------
(* Properties of the date rule, the ledger and the frame of a propagation *)

\* Days by which a task finished after its expected end (0 when it did not).
LateBy(task) ==
    IF task.actual_end_date # None /\ task.expected_end_date # None
       /\ Val(task.actual_end_date) > Val(task.expected_end_date)
    THEN Val(task.actual_end_date) - Val(task.expected_end_date)
    ELSE 0

MaxOf(a, b) == IF a >= b THEN a ELSE b

\* The direct predecessors of t, as the repository holds them now.
ParentTasks(t) == [i \in 1..Len(deps[t]) |-> tasks[deps[t][i]]]

\* max(previous expected start, latest finish of the direct predecessors)
RequiredStart(t) ==
    LET latest == calculate_max_delay_from_parents(ParentTasks(t)) IN
    IF latest = None THEN Val(tasks0[t].expected_start_date)
    ELSE MaxOf(Val(tasks0[t].expected_start_date), Val(latest))

EntriesFor(t, r) ==
    {i \in DOMAIN history :
        history[i].task_id = t /\ history[i].caused_by_task_id = r}

\* C12: once a propagation from root r has returned, every task whose
\* expected dates it changed has exactly one ScheduleHistory entry, carrying
\* r as the causing task.
C12_HistoryCompleteness ==
    \A r \in Tasks :
        FirstRunDone(r)
        => \A t \in Tasks :
              ~SameExpectedDates(tasks0[t], tasks[t])
              => Cardinality(EntriesFor(t, r)) = 1

----------------------------------------------------------------------------
(* propagate_delay_through_graph, one repository call per step *)

\* The variables that the step-wise actions leave alone.
seqVars == <<deps, pc, root, delay_delta, queue, visited, updatedIds, log,
             tasks0, pre, dcCall, addResult, history, delayCall,
             user_responsible, unblocked, bus, gantt, maxCall, dfs>>

\* Entering the function (lines 3017-3023): the delay of root_task is computed
\* and, when there is none, the function returns at once.
BeginRun(p, r) ==
    /\ run[p].pc = "idle"
    /\ run[p].outcome = "none"
    /\ tasks[r].status = "done"
    /\ run' = [run EXCEPT ![p] =
                 IF calculate_delay_delta(tasks[r]) = None
                 THEN [IdleRun EXCEPT !.root = Some(r), !.outcome = "returned",
                                      !.pre = tasks]
                 ELSE [IdleRun EXCEPT !.pc = "find", !.root = Some(r),
                                      !.queue = <<r>>, !.pre = tasks]]
    /\ UNCHANGED <<tasks, seqVars>>

\* Lines 3025-3043: pop the queue, read the current task and its dependents
\* from the repository (the objects of this call), and shift them.  `passed`
\* holds the objects as read, `objs` the same objects after the engine ran.
FindAndShift(p) ==
    /\ run[p].pc = "find"
    /\ run[p].queue # <<>>
    /\ LET current_id == Head(run[p].queue) IN
       IF current_id \in run[p].visited
       THEN run' = [run EXCEPT ![p].queue = Tail(run[p].queue)]
       ELSE \E dependents \in find_dependent_tasks(current_id) :
              LET res == propagate_delay_to_dependents(
                             tasks, tasks[current_id], dependents)
              IN run' = [run EXCEPT
                           ![p].queue = Tail(run[p].queue),
                           ![p].visited = run[p].visited \cup {current_id},
                           ![p].current = Some(current_id),
                           ![p].dependents = dependents,
                           ![p].passed = tasks,
                           ![p].objs = res.objs,
                           ![p].toSave = res.updated,
                           ![p].pc = IF res.updated = <<>> THEN "find"
                                     ELSE "save"]
    /\ UNCHANGED <<tasks, seqVars>>

\* Lines 3045-3056, one iteration of the for loop: task_repository.save
\* writes the object of this call and the task id is queued.
SaveTask(p) ==
    /\ run[p].pc = "save"
    /\ run[p].toSave # <<>>
    /\ LET updated_task == Head(run[p].toSave) IN
       /\ tasks' = [tasks EXCEPT ![updated_task] = run[p].objs[updated_task]]
       /\ run' = [run EXCEPT
                    ![p].toSave = Tail(run[p].toSave),
                    ![p].saved = run[p].saved \cup {updated_task},
                    ![p].queue = Append(run[p].queue, updated_task),
                    ![p].pc = IF Tail(run[p].toSave) = <<>> THEN "find"
                              ELSE "save"]
    /\ UNCHANGED seqVars

\* task_repository.save raises: nothing in the function catches it, so the
\* exception leaves the function and the earlier saves stay.
SaveRaises(p) ==
    /\ run[p].pc = "save"
    /\ run[p].toSave # <<>>
    /\ run' = [run EXCEPT ![p].pc = "idle", ![p].outcome = "raised"]
    /\ UNCHANGED <<tasks, seqVars>>

\* The while loop ends on an empty queue.
EndRun(p) ==
    /\ run[p].pc = "find"
    /\ run[p].queue = <<>>
    /\ run' = [run EXCEPT ![p].pc = "idle", ![p].outcome = "returned"]
    /\ UNCHANGED <<tasks, seqVars>>

StepShapes == {FanIn, Diamond}

InitSteps ==
    /\ deps \in StepShapes
    /\ tasks \in {m \in [Tasks -> RootProfiles \cup DependentProfiles] :
                    /\ m["A"] \in {DoneRoot(n) : n \in 0..MaxDelay}
                    /\ m["B"] \in {DoneRoot(n) : n \in 1..MaxDelay} \cup {TodoTask}
                    /\ m["C"] \in {TodoTask, DoingTask}
                    /\ m["D"] \in {TodoTask, DoingTask, UndatedTask, DoneTask}}
    /\ tasks0 = tasks
    /\ pre = tasks
    /\ pc = "idle"
    /\ root = None
    /\ delay_delta = None
    /\ queue = <<>>
    /\ visited = {}
    /\ updatedIds = {}
    /\ log = <<>>
    /\ dcCall = None
    /\ addResult = "none"
    /\ StepVarsIdle

NextSteps ==
    \/ \E p \in Procs, r \in Tasks : BeginRun(p, r)
    \/ \E p \in Procs : FindAndShift(p)
    \/ \E p \in Procs : SaveTask(p)
    \/ \E p \in Procs : SaveRaises(p)
    \/ \E p \in Procs : EndRun(p)

SpecSteps == InitSteps /\ [][NextSteps]_vars

----------------------------------------------------------------------------
(* Properties of the step-wise propagation *)

OtherProc(p) == CHOOSE q \in Procs : q # p

\* C13: when a propagation ended because a save raised (and no other call
\* ran), none of its new expected dates is in the repository.
C13_AtomicPropagation ==
    \A p \in Procs :
        (run[p].outcome = "raised" /\ run[OtherProc(p)] = IdleRun)
        => \A t \in Tasks : SameExpectedDates(tasks0[t], tasks[t])

\* The repositories a whole call of propagate_delay_through_graph can leave,
\* run alone from the repository repo with the given queue and visited set.
RECURSIVE BfsResults(_, _, _)
BfsResults(repo, q, seen) ==
    IF q = <<>> THEN {repo}
    ELSE IF Head(q) \in seen THEN BfsResults(repo, Tail(q), seen)
    ELSE UNION {
           LET res == propagate_delay_to_dependents(repo, repo[Head(q)], ds)
           IN BfsResults(res.objs, Tail(q) \o res.updated, seen \cup {Head(q)})
           : ds \in find_dependent_tasks(Head(q)) }

SerialRun(repo, r) ==
    IF calculate_delay_delta(repo[r]) = None THEN {repo}
    ELSE BfsResults(repo, <<r>>, {})

\* The repositories left by the run for r1 followed by the run for r2.
SerialRuns(r1, r2) ==
    UNION {SerialRun(m, r2) : m \in SerialRun(tasks0, r1)}

\* C14: when two runs for different roots sharing a dependent have both
\* returned, the shared dependent's expected dates are those of one of the
\* two serial executions.
C14_Serializability ==
    LET r1 == run["p1"].root
        r2 == run["p2"].root
    IN ( /\ run["p1"].outcome = "returned"
         /\ run["p2"].outcome = "returned"
         /\ r1 # r2 )
       => \A t \in Tasks :
             (Val(r1) \in Range(deps[t]) /\ Val(r2) \in Range(deps[t]))
             => \E m \in SerialRuns(Val(r1), Val(r2))
                         \cup SerialRuns(Val(r2), Val(r1)) :
                    SameExpectedDates(m[t], tasks[t])

\* C18: after propagate_delay_to_dependents returned, the dependents passed
\* to it have the expected dates they had before the call.
C18_SideEffectFree ==
    \A p \in Procs :
        run[p].pc = "save"
        => \A t \in Range(run[p].dependents) :
              SameExpectedDates(run[p].passed[t], run[p].objs[t])

----------------------------------------------------------------------------
(* Propagation over dependency records that hold a cycle *)

\* A and B depend on each other; C depends on B.
TwoCycle ==
    [NoDeps EXCEPT !["A"] = <<"B">>, !["B"] = <<"A">>, !["C"] = <<"B">>]

\* B depends on A, C on B and A on C; D depends on C.
ThreeCycle ==
    [NoDeps EXCEPT !["B"] = <<"A">>, !["C"] = <<"B">>, !["A"] = <<"C">>,
                   !["D"] = <<"C">>]

CyclicShapes == {TwoCycle, ThreeCycle}

InitCyclic ==
    /\ deps \in CyclicShapes
    /\ tasks \in [Tasks -> RootProfiles \cup DependentProfiles]
    /\ tasks["A"] \in RootProfiles
    /\ tasks["C"] \in DependentProfiles
    /\ tasks["D"] \in DependentProfiles
    /\ tasks0 = tasks
    /\ pre = tasks
    /\ pc = "idle"
    /\ root = None
    /\ delay_delta = None
    /\ queue = <<>>
    /\ visited = {}
    /\ updatedIds = {}
    /\ log = <<>>
    /\ dcCall = None
    /\ addResult = "none"
    /\ StepVarsIdle

SpecCyclic == InitCyclic /\ [][Next]_vars

\* C15: over dependency records that hold a cycle, no propagation from a
\* delayed root returns normally and no expected date is changed.
C15_FatalOnCycle ==
    HasCycle(deps)
    => /\ \A i \in DOMAIN log : ~detect_delay(tasks0[log[i]])
       /\ \A t \in Tasks : SameExpectedDates(tasks0[t], tasks[t])

----------------------------------------------------------------------------
(* Frame of a propagation *)

\* C16: whatever the propagation has done so far, every task has the
\* actual_start_date, actual_end_date and status it had at the start, and the
\* root of the run in progress keeps its own expected dates.
C16_WriteOnceActuals ==
    /\ \A t \in Tasks :
          /\ tasks[t].actual_start_date = tasks0[t].actual_start_date
          /\ tasks[t].actual_end_date = tasks0[t].actual_end_date
          /\ tasks[t].status = tasks0[t].status
    /\ pc = "loop" => SameExpectedDates(tasks0[Val(root)], tasks[Val(root)])

\* C16 witness: the run has moved the expected end of a task that had
\* already started.
C16_Witness ==
    /\ pc = "loop"
    /\ \E t \in updatedIds :
          /\ tasks[t].actual_start_date # None
          /\ ~SameExpectedDates(pre[t], tasks[t])

\* C17: every task that propagate_delay_to_dependents returned during the
\* run (and that was therefore saved and queued) has an expected date that
\* differs from its value before the run.
C17_NoSpuriousMutations ==
    \A t \in updatedIds : ~SameExpectedDates(pre[t], tasks[t])

----------------------------------------------------------------------------
(* Calls of detect_delay *)

MaxDay == 2

\* None or a day of 0..MaxDay
OptionalDays == {None} \cup {Some(d) : d \in 0..MaxDay}

\* The tasks of TestScheduleDetection: only the two end dates matter.
DetectionTask(ee, ae) ==
    Task(IF ae = None THEN "doing" ELSE "done", None, ee, None, ae)

InitDelay ==
    /\ deps = NoDeps
    /\ \E eeA \in OptionalDays, aeA \in OptionalDays,
          eeB \in OptionalDays, aeB \in OptionalDays :
          tasks = [t \in Tasks |->
                     IF t = "A" THEN DetectionTask(eeA, aeA)
                     ELSE IF t = "B" THEN DetectionTask(eeB, aeB)
                     ELSE TodoTask]
    /\ tasks0 = tasks
    /\ pre = tasks
    /\ pc = "idle"
    /\ root = None
    /\ delay_delta = None
    /\ queue = <<>>
    /\ visited = {}
    /\ updatedIds = {}
    /\ log = <<>>
    /\ dcCall = None
    /\ addResult = "none"
    /\ StepVarsIdle

\* A call detect_delay(task); the task and the returned value are recorded.
DetectDelayCall(t) ==
    /\ delayCall' = Some([task |-> t, result |-> detect_delay(tasks[t])])
    /\ UNCHANGED <<tasks, deps, pc, root, delay_delta, queue, visited,
                   updatedIds, log, tasks0, pre, dcCall, addResult, run,
                   history, user_responsible, unblocked, bus, gantt, maxCall,
                   dfs>>

NextDelay == \E t \in Tasks : DetectDelayCall(t)

SpecDelay == InitDelay /\ [][NextDelay]_vars

\* C19: detect_delay returns True when both end dates are set and the actual
\* end is strictly later than the expected end, and False when the dates are
\* equal, when the actual end is earlier, or when either date is missing.
C19_DetectDelay ==
    delayCall # None
    => LET task == tasks[Val(delayCall).task]
           result == Val(delayCall).result
           ae == task.actual_end_date
           ee == task.expected_end_date
       IN /\ result \in BOOLEAN
          /\ (ae = None \/ ee = None) => result = FALSE
          /\ (ae # None /\ ee # None /\ Val(ae) = Val(ee)) => result = FALSE
          /\ (ae # None /\ ee # None /\ Val(ae) < Val(ee)) => result = FALSE
          /\ (ae # None /\ ee # None /\ Val(ae) > Val(ee)) => result = TRUE

\* C19 witness: detect_delay was called on a task that finished exactly on
\* its expected end and returned False.
C19_Witness ==
    /\ delayCall # None
    /\ tasks[Val(delayCall).task].actual_end_date # None
    /\ tasks[Val(delayCall).task].actual_end_date
         = tasks[Val(delayCall).task].expected_end_date
    /\ Val(delayCall).result = FALSE

----------------------------------------------------------------------------
(* Task lifecycle: claim, block, complete, unblock on completion *)

Users == {"u1"}

\* Variables that no lifecycle operation touches.
lifeFrame == <<deps, pc, root, delay_delta, queue, visited, updatedIds, log,
               tasks0, pre, dcCall, addResult, run, history, delayCall,
               bus, gantt, maxCall, dfs>>

\* Task.claim: the user has the role of the task.
Claim(t, user) ==
    /\ user_responsible[t] = None
    /\ tasks[t].status \in {"todo", "blocked"}
    /\ user_responsible' = [user_responsible EXCEPT ![t] = Some(user)]
    /\ tasks' = [tasks EXCEPT ![t].status = "doing"]
    /\ UNCHANGED <<unblocked, lifeFrame>>

\* Task.block
Block(t) ==
    /\ tasks[t].status \in {"todo", "doing"}
    /\ tasks' = [tasks EXCEPT ![t].status = "blocked"]
    /\ UNCHANGED <<user_responsible, unblocked, lifeFrame>>

\* A handler that unblocks every blocked dependent of task_id without
\* looking at its other dependencies.
handle_task_completed_AnyDone(repo, task_id) ==
    [d \in Tasks |->
        IF task_id \in Range(deps[d]) /\ repo[d].status = "blocked"
        THEN [repo[d] EXCEPT !.status = "todo"]
        ELSE repo[d]]

\* DependencyHandler.handle_task_completed on the repository repo: every
\* blocked dependent of task_id whose dependencies are all done is unblocked
\* (status todo, UC-015 step 3).
handle_task_completed(repo, task_id) ==
    [d \in Tasks |->
        IF /\ task_id \in Range(deps[d])
           /\ \A x \in Range(deps[d]) : repo[x].status = "done"
           /\ repo[d].status = "blocked"
        THEN [repo[d] EXCEPT !.status = "todo"]
        ELSE repo[d]]

\* Task.complete, followed by the handler of the TaskCompleted event.
Complete(t) ==
    /\ tasks[t].status = "doing"
    /\ tasks' = handle_task_completed(
                    [tasks EXCEPT ![t].status = "done"], t)
    /\ unblocked' = {d \in Tasks : /\ tasks[d].status = "blocked"
                                   /\ tasks'[d].status = "todo"}
    /\ UNCHANGED <<user_responsible, lifeFrame>>

InitLife ==
    /\ deps = NoDeps
    /\ tasks = TodoRepository
    /\ tasks0 = tasks
    /\ pre = tasks
    /\ pc = "idle"
    /\ root = None
    /\ delay_delta = None
    /\ queue = <<>>
    /\ visited = {}
    /\ updatedIds = {}
    /\ log = <<>>
    /\ dcCall = None
    /\ addResult = "none"
    /\ StepVarsIdle

\* The tasks the team works on; D stays in the backlog.
LifeTasks == {"A", "B", "C"}

NextLife ==
    \/ \E t \in LifeTasks, d \in LifeTasks : AddDependency(t, d)
    \/ \E t \in LifeTasks, u \in Users : Claim(t, u)
    \/ \E t \in LifeTasks : Block(t)
    \/ \E t \in LifeTasks : Complete(t)

SpecLife == InitLife /\ [][NextLife]_vars

\* C20: a task with a dependency on a task that is not done is never in
\* status doing.
C20_BlockedNotStarted ==
    \A a \in Tasks, b \in Tasks :
        (b \in Range(deps[a]) /\ tasks[b].status # "done")
        => tasks[a].status # "doing"

----------------------------------------------------------------------------
(* Properties of the task lifecycle *)

\* The transitions of BR-006.
BR006 ==
    {<<"todo", "doing">>, <<"todo", "blocked">>, <<"doing", "done">>,
     <<"doing", "blocked">>, <<"blocked", "todo">>}

\* C21: every status change made by Task.claim, Task.complete, Task.block or
\* the unblock path (the steps that leave the dependency records alone) is a
\* BR-006 transition; in particular a done task keeps its status.
C21_ValidTransitions ==
    [][ deps' = deps
        => \A t \in Tasks :
              tasks'[t].status # tasks[t].status
              => <<tasks[t].status, tasks'[t].status>> \in BR006 ]_vars

\* C22: in a step that completes a task x (and runs the handler for it), a
\* task d other than x moves from blocked to todo when it depends on x, was
\* blocked and every task it depends on is done afterwards; any other task
\* keeps its status.
C22_AutoUnblock ==
    [][ \A x \in Tasks :
          (tasks[x].status = "doing" /\ tasks'[x].status = "done")
          => \A d \in Tasks \ {x} :
                IF /\ x \in Range(deps[d])
                   /\ tasks[d].status = "blocked"
                   /\ \A y \in Range(deps[d]) : tasks'[y].status = "done"
                THEN tasks'[d].status = "todo"
                ELSE tasks'[d].status = tasks[d].status ]_vars

\* C22 witness: the handler unblocked a task with two dependencies, both of
\* them done.
C22_Witness ==
    \E d \in unblocked :
        /\ Len(deps[d]) = 2
        /\ \A y \in Range(deps[d]) : tasks[y].status = "done"
        /\ tasks[d].status = "todo"

----------------------------------------------------------------------------
(* Further properties of detect_cycle *)

\* C23: detect_cycle returns False whenever task_id differs from
\* depends_on_id and task_id is not reachable from depends_on_id along the
\* existing dependency lists.
C23_NoFalseRejection ==
    dcCall # None =>
        LET c == Val(dcCall) IN
        ( /\ c.task_id # c.depends_on_id
          /\ ~Reachable(deps, c.depends_on_id, c.task_id) )
        => c.result = FALSE

\* C23 witness: a call returned False after a search that met some task
\* along two different dependency lists.
C23_Witness ==
    /\ dcCall # None
    /\ Val(dcCall).result = FALSE
    /\ \E x \in Tasks, y \in Tasks, z \in Tasks :
          /\ x # y
          /\ Reachable(deps, Val(dcCall).depends_on_id, x)
          /\ Reachable(deps, Val(dcCall).depends_on_id, y)
          /\ z \in Range(deps[x])
          /\ z \in Range(deps[y])

----------------------------------------------------------------------------
(* The BFS of BR-024 *)

\* apply_propagation(dependent, delay_delta): step 4 of BR-024, the
\* lifecycle rules of BR-026.
apply_propagation(dependent, delta) == ShiftDependent(dependent, delta)

\* The for loop of the BFS over the dependents of the dequeued task: every
\* dependent is queued and apply_propagation is applied to it.
RECURSIVE ForDependents(_, _, _, _)
ForDependents(objs, q, dependents, delta) ==
    IF dependents = <<>> THEN [objs |-> objs, queue |-> q]
    ELSE LET dependent == Head(dependents) IN
         ForDependents(
             [objs EXCEPT ![dependent] = apply_propagation(objs[dependent], delta)],
             Append(q, dependent), Tail(dependents), delta)

bfsFrame == <<deps, tasks0, updatedIds, dcCall, addResult>>

\* Step 1 and the first two lines of step 2: the input is a root that just
\* became DONE with actual_end > expected_end.
BfsStart(r) ==
    /\ pc = "idle"
    /\ log = <<>>
    /\ tasks[r].status = "done"
    /\ detect_delay(tasks[r])
    /\ pc' = "bfs"
    /\ root' = Some(r)
    /\ delay_delta' = calculate_delay_delta(tasks[r])
    /\ queue' = <<r>>
    /\ visited' = {}
    /\ pre' = tasks
    /\ UNCHANGED <<tasks, log, bfsFrame>>
    /\ UNCHANGED stepVars

\* One iteration of the while loop of step 2.
BfsStep ==
    /\ pc = "bfs"
    /\ queue # <<>>
    /\ LET current_id == Head(queue) IN
       IF current_id \in visited
       THEN /\ queue' = Tail(queue)
            /\ UNCHANGED <<tasks, visited>>
       ELSE /\ visited' = visited \cup {current_id}
            /\ \E dependents \in find_dependent_tasks(current_id) :
                 LET res == ForDependents(tasks, Tail(queue), dependents,
                                          Val(delay_delta))
                 IN /\ tasks' = res.objs
                    /\ queue' = res.queue
    /\ UNCHANGED <<pc, root, delay_delta, pre, log, bfsFrame>>
    /\ UNCHANGED stepVars

\* The while loop ends on an empty queue.
BfsReturn ==
    /\ pc = "bfs"
    /\ queue = <<>>
    /\ pc' = "idle"
    /\ log' = Append(log, Val(root))
    /\ UNCHANGED <<tasks, root, delay_delta, queue, visited, pre, bfsFrame>>
    /\ UNCHANGED stepVars

InitBR024 ==
    /\ deps \in {Chain, Diamond}
    /\ tasks \in {m \in [Tasks -> RootProfiles \cup DependentProfiles] :
                    /\ m["A"] \in {DoneRoot(n) : n \in 0..MaxDelay}
                    /\ \A t \in {"B", "C", "D"} :
                          m[t] \in {TodoTask, DoingTask, DoneTask}}
    /\ tasks0 = tasks
    /\ pre = tasks
    /\ pc = "idle"
    /\ root = None
    /\ delay_delta = None
    /\ queue = <<>>
    /\ visited = {}
    /\ updatedIds = {}
    /\ log = <<>>
    /\ dcCall = None
    /\ addResult = "none"
    /\ StepVarsIdle

NextBR024 ==
    \/ \E r \in Tasks : BfsStart(r)
    \/ BfsStep
    \/ BfsReturn

SpecBR024 == InitBR024 /\ [][NextBR024]_vars

\* C24: after the BFS from a delayed root r, a task that has not started, has
\* both expected dates and depends on two different dependents of r has its
\* expected dates shifted by the delay of r exactly once.
C24_SingleShiftInDiamond ==
    \A r \in Tasks :
        FirstRunDone(r)
        => \A d \in Tasks :
              ( /\ NotStarted(pre[d])
                /\ HasBothDates(pre[d])
                /\ \E p1 \in Range(deps[d]), p2 \in Range(deps[d]) :
                      /\ p1 # p2
                      /\ r \in Range(deps[p1])
                      /\ r \in Range(deps[p2]) )
              => ShiftedBy(pre[d], tasks[d], LateBy(pre[r]))

----------------------------------------------------------------------------
(* Calls of calculate_max_delay_from_parents *)

MaxParents == 2

\* A parent: done or in progress, each end date missing or a day.
ParentProfiles ==
    {Task(st, None, ee, None, ae) :
        st \in {"done", "doing"}, ee \in OptionalDays, ae \in OptionalDays}

\* The lists of at most MaxParents task ids.
ParentLists ==
    UNION {[1..n -> {"A", "B", "C"}] : n \in 0..MaxParents}

InitMax ==
    /\ deps = NoDeps
    /\ tasks \in {m \in [Tasks -> ParentProfiles \cup {UndatedTask, TodoTask}] :
                    /\ m["A"] \in ParentProfiles
                    /\ m["A"].status = "done"
                    /\ m["B"] \in ParentProfiles
                    /\ m["C"] = UndatedTask
                    /\ m["D"] = TodoTask}
    /\ tasks0 = tasks
    /\ pre = tasks
    /\ pc = "idle"
    /\ root = None
    /\ delay_delta = None
    /\ queue = <<>>
    /\ visited = {}
    /\ updatedIds = {}
    /\ log = <<>>
    /\ dcCall = None
    /\ addResult = "none"
    /\ StepVarsIdle

\* A call calculate_max_delay_from_parents(parent_tasks) on the tasks with
\* the given ids; the ids and the returned value are recorded.
MaxDelayCall(ids) ==
    /\ maxCall' = Some([parent_ids |-> ids,
                        result |-> calculate_max_delay_from_parents(
                                       [i \in 1..Len(ids) |-> tasks[ids[i]]])])
    /\ UNCHANGED <<tasks, deps, pc, root, delay_delta, queue, visited,
                   updatedIds, log, tasks0, pre, dcCall, addResult, run,
                   history, delayCall, user_responsible, unblocked, bus,
                   gantt, dfs>>

NextMax == \E ids \in ParentLists : MaxDelayCall(ids)

SpecMax == InitMax /\ [][NextMax]_vars

\* The finish of a parent: actual end when done and set, else expected end.
FinishOf(task) ==
    IF task.status = "done" /\ task.actual_end_date # None
    THEN task.actual_end_date
    ELSE task.expected_end_date

\* C25: calculate_max_delay_from_parents returns the latest finish over the
\* parents that have one, and None when no parent has one.
C25_LatestParentFinish ==
    maxCall # None
    => LET ids == Val(maxCall).parent_ids
           result == Val(maxCall).result
           finishes == {Val(FinishOf(tasks[p])) :
                           p \in {q \in Range(ids) : FinishOf(tasks[q]) # None}}
       IN IF finishes = {}
          THEN result = None
          ELSE /\ result # None
               /\ Val(result) \in finishes
               /\ \A f \in finishes : f <= Val(result)

\* C25 witness: of two parents the first, done, finished (actual end) later
\* than its expected end and later than the second, which has only an
\* expected end; the call returned the first parent's actual end.
C25_Witness ==
    /\ maxCall # None
    /\ Len(Val(maxCall).parent_ids) = 2
    /\ LET p1 == tasks[Val(maxCall).parent_ids[1]]
           p2 == tasks[Val(maxCall).parent_ids[2]]
       IN /\ p1.status = "done"
          /\ p1.actual_end_date # None
          /\ p1.expected_end_date # None
          /\ Val(p1.actual_end_date) > Val(p1.expected_end_date)
          /\ p2.status = "doing"
          /\ p2.expected_end_date # None
          /\ Val(p1.actual_end_date) > Val(p2.expected_end_date)
          /\ Val(maxCall).result = p1.actual_end_date

----------------------------------------------------------------------------
(* detect_cycle, one loop iteration per step *)

\* A visited set that forgets the task just expanded.
VisitedAdd_Forgets(seen, current) == seen

\* visited.add(current)
VisitedAdd(seen, current) == seen \cup {current}

dfsFrame == <<tasks, deps, pc, root, delay_delta, queue, visited, updatedIds,
              log, tasks0, pre, dcCall, addResult, run, history, delayCall,
              user_responsible, unblocked, bus, gantt, maxCall>>

\* Entering detect_cycle: the self-dependency test, then visited and stack.
DfsBegin(task_id, depends_on_id) ==
    /\ dfs.pc = "idle"
    /\ dfs' = IF task_id = depends_on_id
              THEN [IdleDfs EXCEPT !.pc = "done", !.task_id = Some(task_id),
                                   !.result = Some(TRUE)]
              ELSE [IdleDfs EXCEPT !.pc = "loop", !.task_id = Some(task_id),
                                   !.stack = <<depends_on_id>>]
    /\ UNCHANGED dfsFrame

\* One iteration of `while stack:`; `expanded` lists the tasks whose
\* dependency list was read, in order.
DfsStep ==
    /\ dfs.pc = "loop"
    /\ dfs.stack # <<>>
    /\ LET current == dfs.stack[Len(dfs.stack)]
           rest == SubSeq(dfs.stack, 1, Len(dfs.stack) - 1)
       IN dfs' = IF current = Val(dfs.task_id)
                 THEN [dfs EXCEPT !.pc = "done", !.stack = rest,
                                  !.result = Some(TRUE)]
                 ELSE IF current \in dfs.visited
                      THEN [dfs EXCEPT !.stack = rest]
                      ELSE [dfs EXCEPT
                              !.visited = VisitedAdd(dfs.visited, current),
                              !.expanded = Append(dfs.expanded, current),
                              !.stack = PushDeps(rest, deps, current)]
    /\ UNCHANGED dfsFrame

\* The loop ends on an empty stack: return False.
DfsEnd ==
    /\ dfs.pc = "loop"
    /\ dfs.stack = <<>>
    /\ dfs' = [dfs EXCEPT !.pc = "done", !.result = Some(FALSE)]
    /\ UNCHANGED dfsFrame

NextDfs ==
    \/ \E d \in Tasks : DfsBegin("A", d)
    \/ DfsStep
    \/ DfsEnd

\* The call, once entered, keeps running: nothing else is scheduled.
SpecDfs ==
    InitCycle /\ [][NextDfs]_vars /\ WF_vars(DfsStep) /\ WF_vars(DfsEnd)

\* No task appears twice in the list of expanded tasks.
ExpandedOnce ==
    \A i \in DOMAIN dfs.expanded, j \in DOMAIN dfs.expanded :
        dfs.expanded[i] = dfs.expanded[j] => i = j

\* C26: on every dependency map, cyclic ones included, a call of detect_cycle
\* that entered its loop returns, and no task is expanded twice.
C26_DetectCycleTerminates ==
    /\ [](ExpandedOnce)
    /\ (dfs.pc = "loop") ~> (dfs.pc = "done")

\* C26 witness: the call returned False on a map that holds a cycle, after
\* expanding the tasks of that cycle.
C26_Witness ==
    /\ dfs.pc = "done"
    /\ dfs.result = Some(FALSE)
    /\ HasCycle(deps)
    /\ \E t \in Range(dfs.expanded) : t \in ReachClosure(deps, StepFrom(deps, {t}))

----------------------------------------------------------------------------
(* Termination of propagate_delay_through_graph on arbitrary data *)

\* A task still in progress that carries an actual end, well after its
\* expected end: data no use case produces, which the function must survive.
LateOpenTask == Task("doing", Some(1), Some(3), Some(1), Some(MaxDelay + 5))

\* B depends on A and on C, and C on B: a cycle beside the root.
SideCycle == [NoDeps EXCEPT !["B"] = <<"A", "C">>, !["C"] = <<"B">>]

InitTerm ==
    /\ deps \in {Diamond, SideCycle} \cup CyclicShapes
    /\ tasks \in {m \in [Tasks -> RootProfiles \cup DependentProfiles
                                    \cup {LateOpenTask}] :
                    /\ m["A"] \in {DoneRoot(n) : n \in 0..MaxDelay}
                    /\ m["B"] \in {TodoTask, DoingTask, LateOpenTask}
                    /\ m["C"] \in {TodoTask, DoingTask, LateOpenTask}
                    /\ m["D"] \in {TodoTask, DoneTask}}
    /\ tasks0 = tasks
    /\ pre = tasks
    /\ pc = "idle"
    /\ root = None
    /\ delay_delta = None
    /\ queue = <<>>
    /\ visited = {}
    /\ updatedIds = {}
    /\ log = <<>>
    /\ dcCall = None
    /\ addResult = "none"
    /\ StepVarsIdle

\* The function, once called, keeps running until it returns.
SpecTerm ==
    InitTerm /\ [][Next]_vars /\ WF_vars(LoopStep) /\ WF_vars(Return)

\* A loop iteration that does more than drop the head of the queue handles
\* a task not yet visited and marks it visited.
ProcessesUnvisitedOnly ==
    [][ ( /\ pc = "loop"
          /\ pc' = "loop"
          /\ \/ tasks' # tasks
             \/ visited' # visited
             \/ queue' # Tail(queue) )
        => /\ Head(queue) \notin visited
           /\ visited' = visited \cup {Head(queue)} ]_vars

\* C27: a call of propagate_delay_through_graph returns, whatever the tasks
\* and the dependency records (cyclic ones included), and it looks up the
\* dependents of each task id at most once.
C27_PropagationTerminates ==
    /\ ProcessesUnvisitedOnly
    /\ (pc = "loop") ~> (pc = "idle")

\* C27 witness: over cyclic dependency records the task at the head of the
\* queue was queued a second time and is already visited.
C27_Witness ==
    /\ pc = "loop"
    /\ HasCycle(deps)
    /\ queue # <<>>
    /\ Head(queue) \in visited
    /\ Head(queue) \in ReachClosure(deps, StepFrom(deps, {Head(queue)}))

----------------------------------------------------------------------------
(* Direct calls of propagate_delay_to_dependents *)

\* A call propagate_delay_to_dependents(task, dependents) on the task t and
\* the tasks that depend on it, as the unit tests make it: `pre` keeps the
\* objects as they were, `updatedIds` the ids of the returned list and `log`
\* the task of each call.
EngineCall(t) ==
    /\ pc = "idle"
    /\ Len(log) < MaxRuns
    /\ \E dependents \in find_dependent_tasks(t) :
         LET res == propagate_delay_to_dependents(tasks, tasks[t], dependents)
         IN /\ tasks' = res.objs
            /\ updatedIds' = Range(res.updated)
    /\ pre' = tasks
    /\ log' = Append(log, t)
    /\ UNCHANGED <<deps, pc, root, delay_delta, queue, visited, tasks0, dcCall,
                   addResult>>
    /\ UNCHANGED stepVars

NextEngine == \E t \in Tasks : EngineCall(t)

SpecEngine == Init /\ [][NextEngine]_vars

\* C28: a call for a task whose actual end is missing, equal to or earlier
\* than its expected end returns an empty list and leaves the expected dates
\* of every task as they were.
C28_NoPropagationWithoutDelay ==
    log # <<>>
    => LET task == pre[log[Len(log)]] IN
       ( \/ task.actual_end_date = None
         \/ task.expected_end_date = None
         \/ Val(task.actual_end_date) <= Val(task.expected_end_date) )
       => /\ updatedIds = {}
          /\ \A d \in Tasks : SameExpectedDates(pre[d], tasks[d])

\* C28 witness: the call was made for a task that finished a day early and
\* has a dependent that has not started; nothing was returned or moved.
C28_Witness ==
    /\ log # <<>>
    /\ LET t == log[Len(log)] IN
       /\ pre[t].actual_end_date # None
       /\ pre[t].expected_end_date # None
       /\ Val(pre[t].actual_end_date) < Val(pre[t].expected_end_date)
       /\ \E d \in Tasks :
             /\ t \in Range(deps[d])
             /\ NotStarted(pre[d])
             /\ HasBothDates(pre[d])
             /\ SameExpectedDates(pre[d], tasks[d])
       /\ updatedIds = {}

----------------------------------------------------------------------------
(* EventBus *)

MaxSubscriptions == 3

Handlers == {"h1", "h2", "h3"}

busFrame == <<tasks, deps, pc, root, delay_delta, queue, visited, updatedIds,
              log, tasks0, pre, dcCall, addResult, run, history, delayCall,
              user_responsible, unblocked, gantt, maxCall, dfs>>

\* Faulty variant of the loop of emit, without the try / except: the first
\* handler that raises ends the loop and the exception leaves emit.
RECURSIVE EmitLoop_NoTry(_, _, _, _)
EmitLoop_NoTry(handlers, raising, invoked, logged) ==
    IF handlers = <<>>
    THEN [invoked |-> invoked, logged |-> logged, outcome |-> "returned"]
    ELSE IF Head(handlers) \in raising
         THEN [invoked |-> Append(invoked, Head(handlers)), logged |-> logged,
               outcome |-> "raised"]
         ELSE EmitLoop_NoTry(Tail(handlers), raising,
                             Append(invoked, Head(handlers)), logged)

\* The for loop of emit: each handler is called; when it raises an Exception
\* the error is logged (logger.error) and the loop goes on.
RECURSIVE EmitLoop(_, _, _, _)
EmitLoop(handlers, raising, invoked, logged) ==
    IF handlers = <<>>
    THEN [invoked |-> invoked, logged |-> logged, outcome |-> "returned"]
    ELSE EmitLoop(Tail(handlers), raising, Append(invoked, Head(handlers)),
                  IF Head(handlers) \in raising
                  THEN Append(logged, Head(handlers))
                  ELSE logged)

\* The number of subscriptions held by the bus.
Subscriptions ==
    LET n(e) == Len(bus.handlers[e]) IN n("TaskCompleted") + n("TaskAssigned")

\* EventBus.subscribe(event_type, handler)
Subscribe(event_type, handler) ==
    /\ Subscriptions < MaxSubscriptions
    /\ bus' = [bus EXCEPT !.handlers[event_type] = Append(@, handler)]
    /\ UNCHANGED busFrame

\* EventBus.emit(event) for an event of the given type; the handlers
\* subscribed at the call, those invoked and the way emit ended are recorded.
Emit(event_type) ==
    /\ LET res == EmitLoop(bus.handlers[event_type], bus.raising, <<>>, <<>>) IN
       bus' = [bus EXCEPT !.emitted =
                  Some([event_type |-> event_type,
                        subscribed |-> bus.handlers[event_type],
                        invoked |-> res.invoked,
                        logged |-> res.logged,
                        outcome |-> res.outcome])]
    /\ UNCHANGED busFrame

\* A new bus; any of the handlers may be one whose call raises an Exception.
InitBus ==
    /\ deps = NoDeps
    /\ tasks = TodoRepository
    /\ tasks0 = tasks
    /\ pre = tasks
    /\ pc = "idle"
    /\ root = None
    /\ delay_delta = None
    /\ queue = <<>>
    /\ visited = {}
    /\ updatedIds = {}
    /\ log = <<>>
    /\ dcCall = None
    /\ addResult = "none"
    /\ run = [p \in Procs |-> IdleRun]
    /\ history = <<>>
    /\ delayCall = None
    /\ user_responsible = [t \in Tasks |-> None]
    /\ unblocked = {}
    /\ \E R \in SUBSET Handlers : bus = [IdleBus EXCEPT !.raising = R]
    /\ gantt = IdleGantt
    /\ maxCall = None
    /\ dfs = IdleDfs

NextBus ==
    \/ \E e \in EventTypes, h \in Handlers : Subscribe(e, h)
    \/ \E e \in EventTypes : Emit(e)

SpecBus == InitBus /\ [][NextBus]_vars

\* C29: emit invokes the handlers subscribed to the event's type, each
\* subscription once and in subscription order, whichever of them raise, and
\* returns normally.
C29_HandlerIsolation ==
    bus.emitted # None
    => /\ Val(bus.emitted).invoked = Val(bus.emitted).subscribed
       /\ Val(bus.emitted).outcome = "returned"

\* C29 witness: the first of three subscribed handlers raises, a later one
\* does not, and all three were invoked.
C29_Witness ==
    /\ bus.emitted # None
    /\ LET e == Val(bus.emitted) IN
       /\ Len(e.subscribed) = 3
       /\ e.subscribed[1] \in bus.raising
       /\ e.subscribed[3] \notin bus.raising
       /\ Len(e.invoked) = 3
       /\ e.logged # <<>>

----------------------------------------------------------------------------
(* Timeline component: calculateTaskRows *)

MaxCreated == 2

\* The five day columns of the timeline.
days == <<"2026-12-24", "2026-12-25", "2026-12-26", "2026-12-27", "2026-12-28">>

\* Dates the create dialog can hold: the five days and one outside of them.
DateInputs == {days[i] : i \in DOMAIN days} \cup {"2026-12-29"}

\* getColumnFromDate: days.findIndex, the zero-based index of the first day
\* with that value, -1 when there is none
getColumnFromDate(dateStr) ==
    IF \E i \in DOMAIN days : days[i] = dateStr
    THEN (CHOOSE i \in DOMAIN days :
              /\ days[i] = dateStr
              /\ \A j \in DOMAIN days : days[j] = dateStr => i <= j) - 1
    ELSE -1

GanttTask(id, startColumn, endColumn) ==
    [id |-> id, startColumn |-> startColumn, endColumn |-> endColumn]

\* The tasks the component starts with (useState).
InitialTasks ==
    << GanttTask("task-1", 0, 0), GanttTask("task-2", 1, 1),
       GanttTask("task-3", 0, 4), GanttTask("task-4", 1, 2),
       GanttTask("task-5", 3, 3) >>

\* The ids of created tasks, `task-${Date.now()}`, in creation order: the clock
\* differs from one creation to the next.
CreatedIds == <<"task-1767000001", "task-1767000002", "task-1767000003",
                "task-1767000004">>

ganttFrame == <<tasks, deps, pc, root, delay_delta, queue, visited, updatedIds,
                log, tasks0, pre, dcCall, addResult, run, history, delayCall,
                user_responsible, unblocked, bus, maxCall, dfs>>

\* The comparator of the sort: by startColumn, then by endColumn.
CompareTasks(a, b) ==
    IF a.startColumn # b.startColumn
    THEN a.startColumn - b.startColumn
    ELSE a.endColumn - b.endColumn

\* Array.prototype.sort is stable: a task goes after the tasks that compare
\* lower or equal and were before it.
RECURSIVE InsertTask(_, _)
InsertTask(task, sorted) ==
    IF sorted = <<>> THEN <<task>>
    ELSE IF CompareTasks(Head(sorted), task) <= 0
         THEN <<Head(sorted)>> \o InsertTask(task, Tail(sorted))
         ELSE <<task>> \o sorted

RECURSIVE SortFrom(_, _)
SortFrom(ts, sorted) ==
    IF ts = <<>> THEN sorted
    ELSE SortFrom(Tail(ts), InsertTask(Head(ts), sorted))

\* [...tasks].sort(...)
sortedTasks(ts) == SortFrom(ts, <<>>)

\* tasks.find(t => t.id === otherId): the first task with that id, if any
FindTask(ts, otherId) ==
    LET hits == {i \in DOMAIN ts : ts[i].id = otherId} IN
    IF hits = {} THEN None
    ELSE Some(ts[CHOOSE i \in hits : \A j \in hits : i <= j])

\* Faulty variant of the overlap test: spans that only share a border column
\* are taken as apart.
SpansOverlap_Strict(taskSpan, otherSpan) ==
    ~(taskSpan.end <= otherSpan.start \/ taskSpan.start >= otherSpan.end)

\* !(taskSpan.end < otherSpan.start || taskSpan.start > otherSpan.end)
SpansOverlap(taskSpan, otherSpan) ==
    ~(taskSpan.end < otherSpan.start \/ taskSpan.start > otherSpan.end)

\* The for loop over Object.entries(rowMap): some task already on assignedRow
\* is found in tasks and its span overlaps taskSpan.
hasOverlap(ts, rowMap, assignedRow, taskSpan) ==
    \E otherId \in DOMAIN rowMap :
        /\ rowMap[otherId] = assignedRow
        /\ FindTask(ts, otherId) # None
        /\ LET otherTask == Val(FindTask(ts, otherId)) IN
           SpansOverlap(taskSpan, [start |-> otherTask.startColumn,
                                   end |-> otherTask.endColumn])

\* A render starts calculateTaskRows: empty rowMap, the tasks sorted.
RowsBegin ==
    /\ gantt.pc = "render"
    /\ gantt' = [gantt EXCEPT !.pc = "rows",
                              !.sortedTasks = sortedTasks(gantt.tasks),
                              !.index = 1,
                              !.assignedRow = 0,
                              !.rowMap = [id \in {} |-> 0]]
    /\ UNCHANGED ganttFrame

\* One pass of the while (true) loop for the current task of forEach: the
\* task takes assignedRow when nothing on that row overlaps it, else the next
\* row is tried.
RowsWhile ==
    /\ gantt.pc = "rows"
    /\ gantt.index <= Len(gantt.sortedTasks)
    /\ LET task == gantt.sortedTasks[gantt.index]
           taskSpan == [start |-> task.startColumn, end |-> task.endColumn]
       IN IF ~hasOverlap(gantt.tasks, gantt.rowMap, gantt.assignedRow, taskSpan)
          THEN gantt' = [gantt EXCEPT
                   !.rowMap = [id \in DOMAIN gantt.rowMap \cup {task.id} |->
                                  IF id = task.id THEN gantt.assignedRow
                                  ELSE gantt.rowMap[id]],
                   !.index = @ + 1,
                   !.assignedRow = 0]
          ELSE gantt' = [gantt EXCEPT !.assignedRow = @ + 1]
    /\ UNCHANGED ganttFrame

\* forEach is over: return rowMap.
RowsReturn ==
    /\ gantt.pc = "rows"
    /\ gantt.index > Len(gantt.sortedTasks)
    /\ gantt' = [gantt EXCEPT !.pc = "rendered"]
    /\ UNCHANGED ganttFrame

\* createTask with the two dates of the dialog: an invalid range is refused
\* (alert), else the task is appended under a fresh id and the component
\* renders again.
CreateTask(expectedStart, expectedEnd) ==
    /\ gantt.pc = "rendered"
    /\ Len(gantt.tasks) < Len(InitialTasks) + MaxCreated
    /\ Len(gantt.tasks) < Len(InitialTasks) + Len(CreatedIds)
    /\ LET startCol == getColumnFromDate(expectedStart)
           endCol == getColumnFromDate(expectedEnd)
       IN IF startCol = -1 \/ endCol = -1 \/ startCol > endCol
          THEN UNCHANGED gantt
          ELSE gantt' = [gantt EXCEPT
                   !.tasks = Append(@, GanttTask(
                                 CreatedIds[Len(gantt.tasks) - Len(InitialTasks) + 1],
                                 startCol, endCol)),
                   !.pc = "render"]
    /\ UNCHANGED ganttFrame

\* The component is mounted with its initial tasks and renders.
InitRows ==
    /\ deps = NoDeps
    /\ tasks = TodoRepository
    /\ tasks0 = tasks
    /\ pre = tasks
    /\ pc = "idle"
    /\ root = None
    /\ delay_delta = None
    /\ queue = <<>>
    /\ visited = {}
    /\ updatedIds = {}
    /\ log = <<>>
    /\ dcCall = None
    /\ addResult = "none"
    /\ run = [p \in Procs |-> IdleRun]
    /\ history = <<>>
    /\ delayCall = None
    /\ user_responsible = [t \in Tasks |-> None]
    /\ unblocked = {}
    /\ bus = IdleBus
    /\ gantt = [IdleGantt EXCEPT !.tasks = InitialTasks, !.pc = "render"]
    /\ maxCall = None
    /\ dfs = IdleDfs

NextRows ==
    \/ RowsBegin
    \/ RowsWhile
    \/ RowsReturn
    \/ \E s \in DateInputs, e \in DateInputs : CreateTask(s, e)

\* A call of calculateTaskRows keeps running once started.
SpecRows ==
    InitRows /\ [][NextRows]_vars
    /\ WF_vars(RowsWhile) /\ WF_vars(RowsReturn)

\* The column span of a task as a set of columns.
ColumnSpan(t) == t.startColumn .. t.endColumn

\* Every task has a row, and two tasks on one row share no column.
RowsCoverAndSeparate ==
    gantt.pc = "rendered"
    => /\ DOMAIN gantt.rowMap = {gantt.tasks[i].id : i \in DOMAIN gantt.tasks}
       /\ \A i, j \in DOMAIN gantt.tasks :
              (i # j /\ gantt.rowMap[gantt.tasks[i].id]
                        = gantt.rowMap[gantt.tasks[j].id])
              => ColumnSpan(gantt.tasks[i]) \cap ColumnSpan(gantt.tasks[j]) = {}

\* C30: calculateTaskRows terminates, and its rowMap gives every task (the
\* ids are distinct) a row such that no two tasks of one row have overlapping
\* column spans [startColumn, endColumn].
C30_RowsTerminateAndSeparate ==
    /\ [](RowsCoverAndSeparate)
    /\ (gantt.pc = "rows") ~> (gantt.pc = "rendered")

\* C30 witness: a render is over in which a created task that only shares a
\* border column with an initial task was moved to a row below it.
C30_Witness ==
    /\ gantt.pc = "rendered"
    /\ Len(gantt.tasks) > Len(InitialTasks)
    /\ \E i, j \in DOMAIN gantt.tasks :
           /\ i <= Len(InitialTasks) /\ j > Len(InitialTasks)
           /\ gantt.tasks[i].endColumn = gantt.tasks[j].startColumn
           /\ gantt.tasks[i].startColumn < gantt.tasks[j].startColumn
           /\ gantt.rowMap[gantt.tasks[j].id] > gantt.rowMap[gantt.tasks[i].id]
           /\ gantt.rowMap[gantt.tasks[j].id] >= 2

====
